---- MODULE Spec2Model ----
(***************************************************************************)
(* Model of src/pacman/pac.py (class Pac): the interface between the       *)
(* installer and libalpm.  The producer is the installer process that owns *)
(* the Pac object; the consumer is the GUI thread that empties the         *)
(* callback queue.  The alpm engine is opaque: each engine call either     *)
(* returns or raises pyalpm.error, and calls the registered hooks while    *)
(* it runs.                                                                *)
(***************************************************************************)
EXTENDS Integers, Sequences, FiniteSets, TLC

\* ------------------------------------------------------------------ bounds
\* Top-level calls the installer makes on one Pac object.
MaxCalls == 2
\* Calls of do_install among them.
MaxInstalls == 1
\* Hook invocations the engine makes over the whole run.
MaxHooks == 2
\* Download hook invocations of one refresh.
MaxDownloads == 3
\* Length of the list of names given to do_install.
MaxNames == 3
\* Largest maxsize of the bounded callback queue.
MaxQueue == 1

\* ------------------------------------------------------------ event values
\* Every event payload is a record of one shape: k is the kind of value,
\* s a string argument, n and d two integer arguments.
Val(k, s, n, d) == [k |-> k, s |-> s, n |-> n, d |-> d]

\* No entry / Python None.
None == Val("None", "", 0, 0)

\* last_dl_filename = None, in the shape of a file name.
NoFile == [stem |-> "", ext |-> "None"]

RECURSIVE GCD(_, _)
GCD(a, b) == IF b = 0 THEN a ELSE GCD(b, a % b)

\* The float a / b (true division): equal quotients are equal floats.
Div(a, b) == LET g == GCD(a, b) IN Val("num", "", a \div g, b \div g)

Zero == Div(0, 1)

\* math.log(1 + tx / 1024) ** 2 / 2 / 100, strictly increasing in tx, 0 at 0.
LogCurve(tx) == IF tx = 0 THEN Zero ELSE Val("logcurve", "", tx, 1024)

\* The largest tx at which the curve is still at most 1:
\* math.log(1 + tx / 1024) ** 2 / 2 / 100 <= 1 iff tx <= 1024 * (e ** sqrt(200) - 1).
LogCurveUnit == 1419551350

\* 0 <= v <= 1 on progress values.
in_unit(v) ==
    CASE v.k = "num" -> 0 <= v.n /\ v.n <= v.d
      [] v.k = "logcurve" -> v.n <= LogCurveUnit
      [] OTHER -> FALSE

\* a > b on progress values.  A download compares only values of one file:
\* quotients over the same total, or curve values, or the 0 set by a reset.
Greater(a, b) ==
    CASE a.k = "num" /\ b.k = "num" -> a.n * b.d > b.n * a.d
      [] a.k = "logcurve" /\ b.k = "logcurve" -> a.n > b.n
      [] a.k = "logcurve" /\ b.k = "num" -> b.n = 0
      [] OTHER -> FALSE

\* A message text.
Text(s) == Val("text", s, 0, 0)

EventTypes == {"info", "percent", "error"}

VARIABLES
    handle,                     \* self.handle: "Handle" or "None"
    syncdbs,                    \* handle.get_syncdbs(): the configured databases
    callback_queue,             \* self.callback_queue
    last_event,                 \* self.last_event
    last_dl_filename,           \* self.last_dl_filename
    last_dl_progress,           \* self.last_dl_progress
    last_dl_total_size,         \* self.last_dl_total_size
    total_download_size,        \* self.total_download_size
    downloaded_packages,        \* self.downloaded_packages
    total_packages_to_download, \* self.total_packages_to_download
    transactions,               \* every transaction the engine has created
    pc,                         \* where the producer is
    frame,                      \* locals of the running do_refresh / do_install
    result,                     \* outcome of the last top-level call
    engine_calls,               \* engine operations of the running (last) call
    consumed,                   \* events the consumer has taken, in order
    event_log,                  \* the calls of queue_event so far, with what each did
    last_hook,                  \* the last hook the engine called, with its arguments
    request,                    \* the arguments of do_install
    last_call,                  \* the last top-level call the installer made
    budget                      \* calls and hook invocations still to be made

vars == <<handle, syncdbs, callback_queue, last_event, last_dl_filename,
          last_dl_progress, last_dl_total_size, total_download_size,
          downloaded_packages, total_packages_to_download, transactions,
          pc, frame, result, engine_calls, consumed, event_log, last_hook,
          request, last_call, budget>>

progress_vars == <<last_dl_filename, last_dl_progress, last_dl_total_size,
                   total_download_size, downloaded_packages>>

\* ---------------------------------------------------------- callback queue
\* A queue.Queue / JoinableQueue: maxsize 0 is unbounded; put counts an
\* unfinished task, task_done finishes one, join waits for none unfinished.
\* present = FALSE is callback_queue = None.
NoQueue == [present |-> FALSE, maxsize |-> 0, queue |-> << >>, unfinished_tasks |-> 0]

NewQueue(maxsize) ==
    [present |-> TRUE, maxsize |-> maxsize, queue |-> << >>, unfinished_tasks |-> 0]

full(q) == q.maxsize > 0 /\ Len(q.queue) >= q.maxsize

\* The event put on the queue whatever its size.
put_unbounded(q, item) ==
    [q EXCEPT !.queue = Append(@, item), !.unfinished_tasks = @ + 1]

\* try: put_nowait(item) except queue.Full: pass
put_nowait(q, item) ==
    IF full(q) THEN q
    ELSE [q EXCEPT !.queue = Append(@, item), !.unfinished_tasks = @ + 1]

\* ------------------------------------------------------------- queue_event
\* "%s: %s in %s:%i" % (event_text, co_name, co_filename, co_firstlineno):
\* the text with the caller's position appended.
format_error(event_text) == Val("text in caller", event_text.s, 0, 0)

\* queue_event without the check for a repeated event.
is_duplicate_never(cache, event_type, event_text) == FALSE

\* if event_type in self.last_event and last_event[event_type] == event_text
is_duplicate(cache, event_type, event_text) ==
    cache[event_type] # None /\ cache[event_type] = event_text

\* The text that goes on the queue.
queued_text(event_type, event_text) ==
    IF event_type = "error" THEN format_error(event_text) ELSE event_text

\* Pac.queue_event up to its last statement that does not block.  e holds
\* last_event and callback_queue; next says how the call goes on: "return",
\* "join" (callback_queue.join(), then sys.exit) or "exit" (sys.exit(1)).
queue_event(e, event_type, event_text) ==
    IF is_duplicate(e.last_event, event_type, event_text)
    THEN [e EXCEPT !.next = "return"]
    ELSE LET cache == [e.last_event EXCEPT ![event_type] = event_text]
         IN  IF ~e.callback_queue.present
             THEN [last_event |-> cache,
                   callback_queue |-> e.callback_queue,
                   next |-> IF event_type = "error" THEN "exit" ELSE "return"]
             ELSE [last_event |-> cache,
                   callback_queue |->
                       put_nowait(e.callback_queue,
                                  <<event_type, queued_text(event_type, event_text)>>),
                   next |-> IF event_type = "error" THEN "join" ELSE "return"]

\* What a call of queue_event did, read off its effect: "suppressed" (no
\* effect at all), "queued" (the event went on the queue) or "not queued".
outcome_of(e, r) ==
    IF r.last_event = e.last_event /\ r.callback_queue = e.callback_queue
    THEN "suppressed"
    ELSE IF r.callback_queue # e.callback_queue THEN "queued" ELSE "not queued"

\* A call of queue_event, entered in the log of calls.
emit(e, event_type, event_text) ==
    LET r == queue_event([last_event |-> e.last_event,
                          callback_queue |-> e.callback_queue,
                          next |-> e.next], event_type, event_text)
    IN  [last_event |-> r.last_event, callback_queue |-> r.callback_queue,
         next |-> r.next,
         log |-> Append(e.log, [type |-> event_type, text |-> event_text,
                                outcome |-> outcome_of(e, r)])]

\* The emitter state the hooks and callers pass through queue_event.
Emitter == [last_event |-> last_event, callback_queue |-> callback_queue,
            next |-> "return", log |-> event_log]

\* A hook call and its arguments.
Hook(name, s, a, b) == [hook |-> name, s |-> s, a |-> a, b |-> b]
NoHook == Hook("", "", 0, 0)

\* ------------------------------------------------------------------- hooks
\* filename[:-len(ext)] if filename.endswith(ext).  A file name is a record
\* of its stem and its extension.
strip_ext(filename, ext) ==
    IF filename.ext = ext THEN [stem |-> filename.stem, ext |-> ""] ELSE filename

\* The info text of a new download (cb_dl, lines 353-366).
dl_text(filename, total_size) ==
    IF total_size = 0
    THEN LET f == strip_ext(filename, ".db")
         IN  Val("Updating %s database", f.stem, 0, IF f.ext = "" THEN 0 ELSE 1)
    ELSE LET f == strip_ext(filename, ".pkg.tar.xz")
         IN  Val("Downloading %s...", f.stem, 0, IF f.ext = "" THEN 0 ELSE 1)

\* The progress indicator of a same-file call (cb_dl, lines 372-376).
dl_progress(tx, total) ==
    IF total > 0 THEN Div(tx, total) ELSE LogCurve(tx)

\* cb_dl taking every progress value.
has_grown_always(progress, last) == TRUE

\* "Update progress only if it has grown" (cb_dl, line 379).
has_grown(progress, last) == Greater(progress, last)

\* cb_dl telling a new file by its name alone.
is_new_file_name_only(filename, total) == filename # last_dl_filename

\* "Check if a new file is coming" (cb_dl, line 347).
is_new_file(filename, total) ==
    filename # last_dl_filename \/ last_dl_total_size # total

\* The text of a phase event, "" for none (cb_event, lines 289-315).
event_action(ID) ==
    CASE ID = 1 -> "Checking dependencies..."
      [] ID = 3 -> "Checking file conflicts..."
      [] ID = 5 -> "Resolving dependencies..."
      [] ID = 7 -> "Checking inter conflicts..."
      [] ID = 9 -> ""
      [] ID = 11 -> "Removing..."
      [] ID = 13 -> "Upgrading..."
      [] ID = 15 -> "Checking integrity..."
      [] ID = 17 -> "Loading packages files..."
      [] ID = 26 -> "Configuring..."
      [] ID = 27 -> "Downloading a file"
      [] OTHER -> ""

\* In an engine call (db.update, prepare, commit) the engine runs the hooks.
InEngine == pc \in {"update", "prepare", "commit"}

\* File names, byte counts and sizes the engine reports: tx bytes so far of
\* total, total 0 when the size is not known.
FileNames == {[stem |-> "core", ext |-> ".db"], [stem |-> "a", ext |-> ".pkg.tar.xz"]}
TxValues == {0, 40, 50, 100, 2000000000}
Totals == {0, 100}

\* Pac.cb_dl(filename, tx, total)
CbDl(filename, tx, total) ==
    /\ InEngine /\ budget.hooks > 0
    /\ budget' = [budget EXCEPT !.hooks = @ - 1]
    /\ IF is_new_file(filename, total)
       THEN LET e1 == emit(Emitter, "info", dl_text(filename, total_download_size))
                e2 == emit(e1, "percent", Zero)
            IN  /\ last_dl_filename' = filename
                /\ last_dl_total_size' = total
                /\ last_dl_progress' = Zero
                /\ downloaded_packages' =
                       IF total_download_size = 0 THEN downloaded_packages
                       ELSE downloaded_packages + 1
                /\ last_event' = e2.last_event
                /\ event_log' = e2.log
                /\ callback_queue' = e2.callback_queue
       ELSE LET progress == dl_progress(tx, last_dl_total_size)
            IN  IF has_grown(progress, last_dl_progress)
                THEN LET e1 == emit(Emitter, "percent", progress)
                     IN  /\ last_dl_progress' = progress
                         /\ event_log' = e1.log
                         /\ last_event' = e1.last_event
                         /\ callback_queue' = e1.callback_queue
                         /\ UNCHANGED <<last_dl_filename, last_dl_total_size,
                                        downloaded_packages>>
                ELSE UNCHANGED <<last_dl_filename, last_dl_total_size, last_dl_progress,
                                 downloaded_packages, last_event, callback_queue,
                                 event_log>>
    /\ last_hook' = Hook("cb_dl", filename.stem \o filename.ext, tx, total)
    /\ UNCHANGED <<handle, syncdbs, total_download_size, total_packages_to_download,
                   transactions, pc, frame, result, engine_calls, consumed, request, last_call>>

\* Pac.cb_totaldl(total_size)
CbTotaldl(total_size) ==
    /\ InEngine /\ budget.hooks > 0
    /\ budget' = [budget EXCEPT !.hooks = @ - 1]
    /\ total_download_size' = total_size
    /\ UNCHANGED <<handle, syncdbs, callback_queue, last_event, last_dl_filename,
                   last_dl_progress, last_dl_total_size, downloaded_packages,
                   total_packages_to_download, transactions, pc, frame, result,
                   engine_calls, consumed, event_log, request, last_call>>
    /\ last_hook' = Hook("cb_totaldl", "", total_size, 0)

\* Pac.cb_event(ID, event, tupel)
CbEvent(ID) ==
    /\ InEngine /\ budget.hooks > 0
    /\ budget' = [budget EXCEPT !.hooks = @ - 1]
    /\ LET action == event_action(ID)
           e1 == IF action # "" THEN emit(Emitter, "info", Text(action))
                 ELSE Emitter
       IN  /\ last_event' = e1.last_event
           /\ callback_queue' = e1.callback_queue
           /\ event_log' = e1.log
    /\ last_hook' = Hook("cb_event", "", ID, 0)
    /\ UNCHANGED <<handle, syncdbs, progress_vars, total_packages_to_download,
                   transactions, pc, frame, result, engine_calls, consumed, request, last_call>>

\* The message and the fraction of cb_progress (lines 333-338).
progress_msg(target, percent, n, i) ==
    IF target # "" THEN Val("Installing %s (%d/%d)", target, i, n)
    ELSE Val("Checking and loading packages... (%d targets)", "", n, 0)

progress_percent(target, percent, n, i) ==
    IF target # "" THEN Div(i, n) ELSE Div(percent, 100)

\* Pac.cb_progress(target, percent, n, i)
CbProgress(target, percent, n, i) ==
    /\ InEngine /\ budget.hooks > 0
    /\ budget' = [budget EXCEPT !.hooks = @ - 1]
    /\ LET e1 == emit(Emitter, "info", progress_msg(target, percent, n, i))
           e2 == emit(e1, "percent", progress_percent(target, percent, n, i))
       IN  /\ last_event' = e2.last_event
           /\ callback_queue' = e2.callback_queue
           /\ event_log' = e2.log
    /\ last_hook' = Hook("cb_progress", target, i, n)
    /\ UNCHANGED <<handle, syncdbs, progress_vars, total_packages_to_download,
                   transactions, pc, frame, result, engine_calls, consumed, request, last_call>>

\* ------------------------------------------------- queue_event, called directly
\* Events the installer emits itself.
CallerEvents == {<<"info", Text("m1")>>, <<"info", Text("m2")>>,
                 <<"error", Text("e1")>>}

\* Pac.queue_event(event_type, event_text), up to join() or sys.exit(1)
QueueEvent(event_type, event_text) ==
    /\ pc = "idle" /\ budget.calls > 0
    /\ budget' = [budget EXCEPT !.calls = @ - 1]
    /\ LET e1 == emit(Emitter, event_type, event_text)
       IN  /\ last_event' = e1.last_event
           /\ callback_queue' = e1.callback_queue
           /\ pc' = CASE e1.next = "return" -> "idle"
                      [] e1.next = "join" -> "join"
                      [] e1.next = "exit" -> "exited"
           /\ result' = IF e1.next = "return" THEN "None" ELSE "SystemExit"
           /\ event_log' = e1.log
    /\ engine_calls' = {}
    /\ UNCHANGED <<handle, syncdbs, progress_vars, total_packages_to_download,
                   transactions, frame, consumed, last_hook, request>>
    /\ last_call' = "queue_event"

\* sys.exit(1) without waiting for the consumer.
joined_at_once(q) == TRUE

\* callback_queue.join() never returning.
joined_never(q) == FALSE

\* callback_queue.join() returns: every event put has been task_done()
joined(q) == q.unfinished_tasks = 0

\* callback_queue.join() returns; sys.exit(1)
JoinExit ==
    /\ pc = "join"
    /\ joined(callback_queue)
    /\ pc' = "exited"
    /\ UNCHANGED <<handle, syncdbs, callback_queue, last_event, progress_vars,
                   total_packages_to_download, transactions, frame, result,
                   engine_calls, consumed, event_log, last_hook, request, last_call, budget>>

\* ---------------------------------------------------------------- consumer
\* The GUI thread: callback_queue.get()
ConsumerGet ==
    /\ callback_queue.present
    /\ Len(callback_queue.queue) > 0
    /\ consumed' = Append(consumed, Head(callback_queue.queue))
    /\ callback_queue' = [callback_queue EXCEPT !.queue = Tail(@)]
    /\ UNCHANGED <<handle, syncdbs, last_event, progress_vars,
                   total_packages_to_download, transactions, pc, frame, result,
                   engine_calls, event_log, last_hook, request, last_call, budget>>

\* The GUI thread: callback_queue.task_done() for an event it has taken
ConsumerTaskDone ==
    /\ callback_queue.present
    /\ callback_queue.unfinished_tasks > Len(callback_queue.queue)
    /\ callback_queue' = [callback_queue EXCEPT !.unfinished_tasks = @ - 1]
    /\ UNCHANGED <<handle, syncdbs, last_event, progress_vars,
                   total_packages_to_download, transactions, pc, frame, result,
                   engine_calls, consumed, event_log, last_hook, request, last_call, budget>>

\* ------------------------------------------------------------ the databases
\* A sync database: its name, the names of its packages, and its groups
\* (group name -> names of the member packages, all packages of the database).
Db(name, pkgs, grps) == [name |-> name, pkgs |-> pkgs, grps |-> grps]

NoGroups == [g \in {} |-> {}]

\* Configurations of handle.get_syncdbs(), in configured order.
DbConfigs ==
    { << >>,
      << Db("core", {"A", "B"}, [G |-> {"A", "B"}]),
         Db("extra", {"B", "C"}, [G |-> {"C"}]) >>,
      << Db("core", {"A"}, [B |-> {"A"}]),
         Db("extra", {"B"}, [G |-> {"B"}]) >> }

\* db.get_pkg(pkgname): the package object, or None
NoPkg == [name |-> "", db |-> "None"]
get_pkg(db, pkgname) ==
    IF pkgname \in db.pkgs THEN [name |-> pkgname, db |-> db.name] ELSE NoPkg

\* repo.read_grp(group): (name, pkgs), or None
NoGrp == [found |-> FALSE, pkgs |-> {}]
read_grp(db, group) ==
    IF group \in DOMAIN db.grps THEN [found |-> TRUE, pkgs |-> db.grps[group]]
    ELSE NoGrp

\* dict((db.name, db) for db in dbs), as the sequence of its values: a name
\* keeps the place of its first database and holds its last one.
RECURSIVE last_named(_, _, _)
last_named(dbs, name, i) ==
    IF dbs[i].name = name THEN dbs[i] ELSE last_named(dbs, name, i - 1)

repos_dict(dbs) ==
    LET first == {i \in 1..Len(dbs) : \A j \in 1..(i - 1) : dbs[j].name # dbs[i].name}
        RECURSIVE values(_)
        values(i) ==
            IF i > Len(dbs) THEN << >>
            ELSE IF i \in first
                 THEN <<last_named(dbs, dbs[i].name, Len(dbs))>> \o values(i + 1)
                 ELSE values(i + 1)
    IN  values(1)

\* Pac.find_sync_package(pkgname, syncdbs): (True, pkg) or (False, message)
RECURSIVE find_sync_package(_, _)
find_sync_package(pkgname, repos) ==
    IF repos = << >> THEN [ok |-> FALSE, pkg |-> NoPkg]
    ELSE LET pkg == get_pkg(Head(repos), pkgname)
         IN  IF pkg # NoPkg THEN [ok |-> TRUE, pkg |-> pkg]
             ELSE find_sync_package(pkgname, Tail(repos))

\* Pac.get_group_pkgs(group): the members of the first database that has
\* the group, or None.  dbs is what is left of handle.get_syncdbs().
RECURSIVE get_group_pkgs(_, _)
get_group_pkgs(group, dbs) ==
    IF dbs = << >> THEN NoGrp
    ELSE LET grp == read_grp(Head(dbs), group)
         IN  IF ~grp.found THEN get_group_pkgs(group, Tail(dbs))
             ELSE grp

\* list(set(xs)): the elements of xs, each once (in some order).
RECURSIVE set(_)
set(xs) == IF xs = << >> THEN {} ELSE {Head(xs)} \cup set(Tail(xs))

RECURSIVE list(_)
list(S) ==
    IF S = {} THEN << >>
    ELSE LET x == CHOOSE x \in S : TRUE IN <<x>> \o list(S \ {x})

\* The targets of a name, group members kept whatever the conflicts.
targets_of_name_group_unfiltered(name, repos, dbs, conflicts) ==
    LET found == find_sync_package(name, repos)
    IN  IF found.ok
        THEN IF found.pkg.name \notin conflicts THEN <<found.pkg.name>> ELSE << >>
        ELSE LET group_pkgs == get_group_pkgs(name, dbs)
             IN  IF group_pkgs.found THEN list(group_pkgs.pkgs) ELSE << >>

\* The targets one name adds (do_install, lines 180-199).
targets_of_name(name, repos, dbs, conflicts) ==
    LET found == find_sync_package(name, repos)
    IN  IF found.ok
        THEN IF found.pkg.name \notin conflicts THEN <<found.pkg.name>> ELSE << >>
        ELSE LET group_pkgs == get_group_pkgs(name, dbs)
             IN  IF group_pkgs.found
                 THEN list({g \in group_pkgs.pkgs : g \notin conflicts})
                 ELSE << >>

\* The loop of do_install over pkgs (lines 178-199): the list targets.
RECURSIVE collect_targets(_, _, _, _)
collect_targets(pkgs, repos, dbs, conflicts) ==
    IF pkgs = << >> THEN << >>
    ELSE targets_of_name(Head(pkgs), repos, dbs, conflicts)
             \o collect_targets(Tail(pkgs), repos, dbs, conflicts)

\* do_install, lines 173-202: the set of targets of a list of names.
resolve_targets(pkgs, dbs, conflicts) ==
    set(collect_targets(list(set(pkgs)), repos_dict(dbs), dbs, conflicts))

\* Engine lookups made while resolving (lines 176-199).
resolve_calls(pkgs, dbs) ==
    {"get_syncdbs"}
        \cup (IF dbs # << >> THEN {"get_pkg"} ELSE {})
        \cup (IF dbs # << >>
                 /\ \E i \in 1..Len(pkgs) : ~find_sync_package(pkgs[i], repos_dict(dbs)).ok
              THEN {"read_grp"} ELSE {})

\* ---------------------------------------------------------- init_transaction
PKG_REASON_EXPLICIT == 0
PKG_REASON_DEPEND == 1

\* options.get(key, default)
get(options, key, default) ==
    IF key \in DOMAIN options THEN options[key] ELSE default

\* options.get('mode', None) == reason
mode_is(options, reason) ==
    "mode" \in DOMAIN options /\ options["mode"] = reason

\* init_transaction taking recurse and recurseall as two separate levels.
transaction_flags_independent(options) ==
    [cascade |-> get(options, "cascade", FALSE),
     nodeps |-> get(options, "nodeps", FALSE),
     force |-> get(options, "force", FALSE),
     dbonly |-> get(options, "dbonly", FALSE),
     downloadonly |-> get(options, "downloadonly", FALSE),
     needed |-> get(options, "needed", FALSE),
     nosave |-> get(options, "nosave", FALSE),
     recurse |-> get(options, "recursive", 0) = 1,
     recurseall |-> get(options, "recursive", 0) > 1,
     unneeded |-> get(options, "unneeded", FALSE),
     alldeps |-> mode_is(options, PKG_REASON_DEPEND),
     allexplicit |-> mode_is(options, PKG_REASON_EXPLICIT)]

\* The flags Pac.init_transaction gives handle.init_transaction.
transaction_flags(options) ==
    [cascade |-> get(options, "cascade", FALSE),
     nodeps |-> get(options, "nodeps", FALSE),
     force |-> get(options, "force", FALSE),
     dbonly |-> get(options, "dbonly", FALSE),
     downloadonly |-> get(options, "downloadonly", FALSE),
     needed |-> get(options, "needed", FALSE),
     nosave |-> get(options, "nosave", FALSE),
     recurse |-> get(options, "recursive", 0) > 0,
     recurseall |-> get(options, "recursive", 0) > 1,
     unneeded |-> get(options, "unneeded", FALSE),
     alldeps |-> mode_is(options, PKG_REASON_DEPEND),
     allexplicit |-> mode_is(options, PKG_REASON_EXPLICIT)]

NoOptions == [k \in {} |-> FALSE]

\* A transaction of the engine: its flags, the packages added, and every
\* operation performed on it, in order ("x_error": x raised pyalpm.error).
NewTransaction(options) ==
    [flags |-> transaction_flags(options), pkgs |-> << >>, ops |-> << >>]

\* Pac.init_transaction(options): the transactions after the call and the
\* transaction returned (its index; 0 is None, the engine raised).
init_transaction(trs, options, ok) ==
    IF ok THEN [transactions |-> Append(trs, NewTransaction(options)),
                transaction |-> Len(trs) + 1]
    ELSE [transactions |-> trs, transaction |-> 0]

\* An operation performed on transaction t.
Op(trs, t, op) == [trs EXCEPT ![t].ops = Append(@, op)]

\* ------------------------------------------------------ finalize_transaction
\* finalize_transaction going on to commit after a failed prepare.
finalize_prepare_commits(trs, t, ok) ==
    [transactions |-> Op(trs, t, IF ok THEN "prepare" ELSE "prepare_error"),
     pc |-> "commit", all_ok |-> ok]

\* Pac.finalize_transaction from transaction.prepare() returning (ok) or
\* raising pyalpm.error (~ok): on to commit, or except / finally / return.
finalize_prepare(trs, t, ok) ==
    IF ok
    THEN [transactions |-> Op(trs, t, "prepare"), pc |-> "commit", all_ok |-> TRUE]
    ELSE [transactions |-> Op(Op(trs, t, "prepare_error"), t, "release"),
          pc |-> "idle", all_ok |-> FALSE]

\* finalize_transaction releasing only a transaction that was committed.
finalize_commit_leak(trs, t, ok) ==
    [transactions |-> IF ok THEN Op(Op(trs, t, "commit"), t, "release")
                      ELSE Op(trs, t, "commit_error"),
     pc |-> "idle", all_ok |-> ok]

\* finalize_transaction not setting all_ok = False in the except clause.
finalize_commit_all_ok(trs, t, ok) ==
    [transactions |-> Op(Op(trs, t, IF ok THEN "commit" ELSE "commit_error"),
                         t, "release"),
     pc |-> "idle", all_ok |-> TRUE]

\* Pac.finalize_transaction from transaction.commit() returning (ok) or
\* raising pyalpm.error (~ok): except / finally / return all_ok.
finalize_commit(trs, t, ok) ==
    [transactions |-> Op(Op(trs, t, IF ok THEN "commit" ELSE "commit_error"),
                         t, "release"),
     pc |-> "idle", all_ok |-> ok]

\* The value a Python bool shows as.
Bool(b) == IF b THEN "True" ELSE "False"

NoFrame == [fn |-> "", db |-> 0, transaction |-> 0]

\* transaction.prepare() ends, inside finalize_transaction
FinalizePrepare(ok) ==
    /\ pc = "prepare"
    /\ LET f == finalize_prepare(transactions, frame.transaction, ok)
       IN  /\ transactions' = f.transactions
           /\ pc' = f.pc
           /\ result' = IF f.pc = "idle" THEN Bool(f.all_ok) ELSE result
           /\ frame' = IF f.pc = "idle" THEN NoFrame ELSE frame
           /\ engine_calls' = engine_calls \cup
                  (IF ok THEN {"prepare", "commit"} ELSE {"prepare", "release"})
    /\ UNCHANGED <<handle, syncdbs, callback_queue, last_event, progress_vars,
                   total_packages_to_download, consumed, event_log, last_hook,
                   request, last_call, budget>>

\* transaction.commit() ends, inside finalize_transaction
FinalizeCommit(ok) ==
    /\ pc = "commit"
    /\ LET f == finalize_commit(transactions, frame.transaction, ok)
       IN  /\ transactions' = f.transactions
           /\ pc' = f.pc
           /\ result' = Bool(f.all_ok)
           /\ frame' = NoFrame
           /\ engine_calls' = engine_calls \cup {"release"}
    /\ UNCHANGED <<handle, syncdbs, callback_queue, last_event, progress_vars,
                   total_packages_to_download, consumed, event_log, last_hook,
                   request, last_call, budget>>

\* ----------------------------------------------------------------- do_install
Names == {"A", "B", "G", "Z"}

RECURSIVE SeqsUpTo(_, _)
SeqsUpTo(S, n) ==
    IF n = 0 THEN {<< >>}
    ELSE LET shorter == SeqsUpTo(S, n - 1)
         IN  shorter \cup {Append(q, x) : q \in shorter, x \in S}

NameLists == SeqsUpTo(Names, MaxNames)
ConflictSets == {{}, {"B"}, {"A", "B"}}
OptionSets == {NoOptions, [recursive |-> 2, mode |-> 1, downloadonly |-> TRUE]}

\* The orders in which a list made from a set can come.
Orders(S) ==
    {q \in [1..Cardinality(S) -> S] : \A i, j \in DOMAIN q : i # j => q[i] # q[j]}

\* The loop of do_install that adds the targets (lines 213-216): targets in
\* the order of the list; add_pkg raises pyalpm.error on target number
\* failing (0: on none).
add_targets(trs, t, targets, repos, failing) ==
    LET added == IF failing = 0 THEN targets ELSE SubSeq(targets, 1, failing - 1)
        names == [i \in DOMAIN added |-> find_sync_package(added[i], repos).pkg.name]
        ops == [i \in DOMAIN added |-> "add_pkg"]
                   \o (IF failing = 0 THEN << >> ELSE <<"add_pkg_error">>)
    IN  [trs EXCEPT ![t].pkgs = @ \o names, ![t].ops = @ \o ops]

\* The arguments of a call of do_install.
Request(pkgs, conflicts, options) ==
    [pkgs |-> pkgs, conflicts |-> conflicts, options |-> options]

\* do_install without its early return.
no_names_never(pkgs) == FALSE

\* if len(pkgs) == 0 (do_install, line 170)
no_names(pkgs) == Len(pkgs) = 0

\* do_install going on with no targets.
no_targets_never(targets) == FALSE

\* if len(targets) == 0 (do_install, line 204)
no_targets(targets) == Cardinality(targets) = 0

\* do_install / do_refresh without the check of the handle.
not_initialised_never(h) == FALSE

\* if self.handle is None (do_refresh, line 151; do_install, line 164)
not_initialised(h) == h = "None"

\* Pac.do_install(pkgs, conflicts, options), up to transaction.prepare()
DoInstall(pkgs, conflicts, options) ==
    /\ pc = "idle" /\ budget.calls > 0 /\ budget.installs > 0
    /\ budget' = [budget EXCEPT !.calls = @ - 1, !.installs = @ - 1]
    /\ IF not_initialised(handle)
       THEN /\ result' = "pyalpm.error"
            /\ engine_calls' = {}
            /\ UNCHANGED <<transactions, pc, frame, total_packages_to_download>>
       ELSE IF no_names(pkgs)
       THEN /\ result' = "[]"
            /\ engine_calls' = {}
            /\ UNCHANGED <<transactions, pc, frame, total_packages_to_download>>
       ELSE LET targets == resolve_targets(pkgs, syncdbs, conflicts)
                lookups == resolve_calls(pkgs, syncdbs)
            IN  IF no_targets(targets)
                THEN /\ result' = "False"
                     /\ engine_calls' = lookups
                     /\ UNCHANGED <<transactions, pc, frame, total_packages_to_download>>
                ELSE \E init_ok \in BOOLEAN :
                       LET trans == init_transaction(transactions, options, init_ok)
                       IN  IF trans.transaction = 0
                           THEN /\ result' = "False"
                                /\ engine_calls' = lookups \cup {"init_transaction"}
                                /\ transactions' = trans.transactions
                                /\ UNCHANGED <<pc, frame, total_packages_to_download>>
                           ELSE \E order \in Orders(targets), failing \in 0..Cardinality(targets) :
                                  /\ transactions' =
                                         add_targets(trans.transactions, trans.transaction,
                                                     order, repos_dict(syncdbs), failing)
                                  /\ engine_calls' =
                                         lookups \cup {"init_transaction", "add_pkg"}
                                             \cup (IF failing = 0 THEN {"prepare"} ELSE {})
                                  /\ IF failing = 0
                                     THEN /\ total_packages_to_download' = Cardinality(targets)
                                          /\ pc' = "prepare"
                                          /\ frame' = [fn |-> "do_install", db |-> 0,
                                                       transaction |-> trans.transaction]
                                          /\ UNCHANGED result
                                     ELSE /\ result' = "pyalpm.error"
                                          /\ UNCHANGED <<pc, frame, total_packages_to_download>>
    /\ request' = Request(pkgs, conflicts, options)
    /\ last_call' = "do_install"
    /\ UNCHANGED <<handle, syncdbs, callback_queue, last_event, progress_vars,
                   consumed, event_log, last_hook>>

\* ----------------------------------------------------------------- do_refresh
\* One turn of the loop of do_refresh, up to db.update(force): the
\* transaction of this turn is opened (or is None) and the update runs.
refresh_turn(trs, i, init_ok) ==
    LET trans == init_transaction(trs, NoOptions, init_ok)
    IN  [transactions |-> trans.transactions,
         frame |-> [fn |-> "do_refresh", db |-> i, transaction |-> trans.transaction]]

\* Pac.do_refresh(), up to the first db.update(force)
DoRefresh ==
    /\ pc = "idle" /\ budget.calls > 0
    /\ budget' = [budget EXCEPT !.calls = @ - 1]
    /\ IF not_initialised(handle)
       THEN /\ result' = "pyalpm.error"
            /\ engine_calls' = {}
            /\ UNCHANGED <<transactions, pc, frame>>
       ELSE IF syncdbs = << >>
       THEN /\ result' = "True"
            /\ engine_calls' = {"get_syncdbs"}
            /\ UNCHANGED <<transactions, pc, frame>>
       ELSE \E init_ok \in BOOLEAN :
              LET turn == refresh_turn(transactions, 1, init_ok)
              IN  /\ transactions' = turn.transactions
                  /\ frame' = turn.frame
                  /\ pc' = "update"
                  /\ engine_calls' = {"get_syncdbs", "init_transaction", "update"}
                  /\ UNCHANGED result
    /\ UNCHANGED <<handle, syncdbs, callback_queue, last_event, progress_vars,
                   total_packages_to_download, consumed, event_log, last_hook,
                   request>>
    /\ last_call' = "do_refresh"

\* db.update(force) ends, inside do_refresh: it returned (ok) or raised
\* pyalpm.error (~ok); then transaction.release() and the next turn.
RefreshUpdate(ok) ==
    /\ pc = "update"
    /\ IF ~ok
       THEN /\ result' = "pyalpm.error"
            /\ pc' = "idle"
            /\ frame' = NoFrame
            /\ UNCHANGED <<transactions, engine_calls>>
       ELSE IF frame.transaction = 0
       THEN /\ result' = "AttributeError"
            /\ pc' = "idle"
            /\ frame' = NoFrame
            /\ UNCHANGED <<transactions, engine_calls>>
       ELSE LET released == Op(transactions, frame.transaction, "release")
            IN  IF frame.db = Len(syncdbs)
                THEN /\ transactions' = released
                     /\ result' = "True"
                     /\ pc' = "idle"
                     /\ frame' = NoFrame
                     /\ engine_calls' = engine_calls \cup {"release"}
                ELSE \E init_ok \in BOOLEAN :
                       LET turn == refresh_turn(released, frame.db + 1, init_ok)
                       IN  /\ transactions' = turn.transactions
                           /\ frame' = turn.frame
                           /\ engine_calls' = engine_calls \cup {"release"}
                           /\ UNCHANGED <<pc, result>>
    /\ UNCHANGED <<handle, syncdbs, callback_queue, last_event, progress_vars,
                   total_packages_to_download, consumed, event_log, last_hook,
                   request, last_call, budget>>

\* Pac.release()
Release ==
    /\ pc = "idle" /\ budget.calls > 0
    /\ budget' = [budget EXCEPT !.calls = @ - 1]
    /\ handle' = "None"
    /\ result' = "None"
    /\ engine_calls' = {}
    /\ UNCHANGED <<syncdbs, callback_queue, last_event, progress_vars,
                   total_packages_to_download, transactions, pc, frame,
                   consumed, event_log, last_hook, request>>
    /\ last_call' = "release"

\* ------------------------------------------------------------ specification
\* callback_queue as the caller gives it: None, or a bounded queue.
QueueConfigs == {NoQueue} \cup {NewQueue(m) : m \in 1..MaxQueue}

\* Pac.__init__ with a configuration that exists: the state after
\* construction, with the databases dbs, the queue q and the budget b.
Constructed(dbs, q, b, r) ==
    /\ handle = "Handle"
    /\ syncdbs = dbs
    /\ callback_queue = q
    /\ last_event = [t \in EventTypes |-> None]
    /\ last_dl_filename = NoFile
    /\ last_dl_progress = Zero
    /\ last_dl_total_size = 0
    /\ total_download_size = 0
    /\ downloaded_packages = 0
    /\ total_packages_to_download = 0
    /\ transactions = << >>
    /\ pc = "idle"
    /\ frame = NoFrame
    /\ result = ""
    /\ engine_calls = {}
    /\ consumed = << >>
    /\ event_log = << >>
    /\ last_hook = NoHook
    /\ request = r
    /\ last_call = ""
    /\ budget = b

Budget(calls, installs, hooks) ==
    [calls |-> calls, installs |-> installs, hooks |-> hooks]

\* The installer's calls of queue_event and release.
Caller ==
    \/ \E ev \in CallerEvents : QueueEvent(ev[1], ev[2])
    \/ JoinExit
    \/ Release

Consumer ==
    \/ ConsumerGet
    \/ ConsumerTaskDone

\* do_install with the request the installer makes.
Install ==
    \/ DoInstall(request.pkgs, request.conflicts, request.options)
    \/ \E ok \in BOOLEAN : FinalizePrepare(ok)
    \/ \E ok \in BOOLEAN : FinalizeCommit(ok)

Refresh ==
    \/ DoRefresh
    \/ \E ok \in BOOLEAN : RefreshUpdate(ok)

DownloadHooks ==
    \/ \E filename \in FileNames, tx \in TxValues, total \in Totals :
           (total > 0 => tx <= total) /\ CbDl(filename, tx, total)
    \/ \E total_size \in Totals : CbTotaldl(total_size)

EventHooks ==
    \/ \E ID \in {1, 9} : CbEvent(ID)
    \/ \E target \in {"", "A"} : CbProgress(target, 50, 2, 1)

\* The whole program: an installer that refreshes, installs one request,
\* emits events and releases, the engine calling the hooks, and the
\* consumer.
Init ==
    \E q \in QueueConfigs,
       r \in {Request(<<"A", "G">>, {"B"}, NoOptions), Request(<< >>, {}, NoOptions)} :
        Constructed(<<Db("core", {"A", "B"}, [G |-> {"A", "B"}])>>, q,
                    Budget(MaxCalls, MaxInstalls, MaxHooks), r)

Next == Caller \/ Consumer \/ Install \/ Refresh \/ DownloadHooks \/ EventHooks

Spec == Init /\ [][Next]_vars

\* The installer installing packages: do_install, finalize_transaction and
\* release, for every configuration of the databases and every request (the
\* arguments the installer gives do_install, drawn at the start).
InitInstall ==
    \E dbs \in DbConfigs, pkgs \in NameLists, conflicts \in ConflictSets,
       options \in OptionSets :
        Constructed(dbs, NoQueue, Budget(MaxCalls, MaxInstalls, 0),
                    Request(pkgs, conflicts, options))

NextInstall == Install \/ Release

SpecInstall == InitInstall /\ [][NextInstall]_vars

\* The event emitter: the installer and the hooks of a refresh emitting
\* events, and the consumer emptying the queue.
InitEvents ==
    \E q \in {NoQueue, NewQueue(MaxQueue)} :
        Constructed(<<Db("core", {"A"}, NoGroups)>>, q, Budget(MaxCalls, 0, MaxHooks),
                    Request(<< >>, {}, NoOptions))

NextEvents ==
    \/ \E ev \in CallerEvents : QueueEvent(ev[1], ev[2])
    \/ JoinExit
    \/ Consumer
    \/ Refresh
    \/ EventHooks

SpecEvents == InitEvents /\ [][NextEvents]_vars

\* The event emitter with a consumer that keeps emptying the queue and a
\* producer that goes on when join() can return.
FairEvents ==
    /\ WF_vars(ConsumerGet)
    /\ WF_vars(ConsumerTaskDone)
    /\ WF_vars(JoinExit)

\* The installer emitting events, the last of them fatal, while a refresh
\* reports its phases.
NextFatal ==
    \/ \E ev \in CallerEvents : QueueEvent(ev[1], ev[2])
    \/ JoinExit
    \/ Consumer
    \/ Refresh
    \/ \E ID \in {1, 9} : CbEvent(ID)

SpecFatal == InitEvents /\ [][NextFatal]_vars /\ FairEvents

\* The download hooks during a refresh or an install.
InitDownload ==
    \E q \in {NoQueue, NewQueue(1)} :
        Constructed(<<Db("core", {"A"}, NoGroups)>>, q, Budget(1, 0, MaxDownloads),
                    Request(<< >>, {}, NoOptions))

NextDownload == Refresh \/ DownloadHooks \/ Consumer

SpecDownload == InitDownload /\ [][NextDownload]_vars

\* The installer installing one package with every options map: 'recursive'
\* absent or 0, 1, 2 and 'mode' absent or PKG_REASON_EXPLICIT,
\* PKG_REASON_DEPEND or a value that is neither.
OptionMaps ==
    {r @@ m : r \in {NoOptions} \cup {"recursive" :> v : v \in 0..2},
              m \in {NoOptions} \cup {"mode" :> v : v \in 0..2}}

InitOptions ==
    \E options \in OptionMaps :
        Constructed(<<Db("core", {"A", "B"}, [G |-> {"A", "B"}])>>, NoQueue,
                    Budget(MaxCalls, MaxInstalls, 0), Request(<<"A", "G">>, {}, options))

NextOptions == Install \/ Release

SpecOptions == InitOptions /\ [][NextOptions]_vars

\* The installer using transactions: do_refresh, do_install and release one
\* after the other, for every configuration of the databases, with every
\* engine call returning or raising.
LifecycleRequests ==
    {Request(<< >>, {}, NoOptions), Request(<<"A">>, {}, NoOptions),
     Request(<<"A", "G">>, {"B"}, NoOptions)}

InitLifecycle ==
    \E dbs \in DbConfigs, q \in {NoQueue, NewQueue(MaxQueue)}, r \in LifecycleRequests :
        Constructed(dbs, q, Budget(MaxCalls, MaxInstalls, 0), r)

NextLifecycle == Refresh \/ Install \/ Release

SpecLifecycle == InitLifecycle /\ [][NextLifecycle]_vars

\* ================================================================== claims
Last(q) == q[Len(q)]

Count(q, x) == Cardinality({i \in DOMAIN q : q[i] = x})

\* finalize_transaction is running on transaction t.
Finalizing(t) == pc \in {"prepare", "commit"} /\ frame.transaction = t

\* finalize_transaction was called on transaction t and has returned.
Finalized(t) ==
    /\ ~Finalizing(t)
    /\ \E i \in DOMAIN transactions[t].ops :
           transactions[t].ops[i] \in {"prepare", "prepare_error"}

\* C1: whatever the engine does in finalize_transaction(t) (prepare and
\* commit succeed, prepare raises, commit raises), t.release() is called
\* exactly once, it is the last engine operation on t, and commit is never
\* called after a failed prepare.
C1_ReleasedOnceAndLast ==
    \A t \in DOMAIN transactions :
        LET ops == transactions[t].ops
        IN  /\ Finalized(t) => Count(ops, "release") = 1 /\ Last(ops) = "release"
            /\ Finalizing(t) => Count(ops, "release") = 0
            /\ \A i, j \in DOMAIN ops :
                   (i < j /\ ops[i] = "prepare_error")
                       => ops[j] \notin {"commit", "commit_error"}

\* finalize_transaction has returned after commit raised: the transaction
\* was prepared, the commit failed, and the transaction was released.
C1_Witness ==
    \E t \in DOMAIN transactions :
        /\ Finalized(t)
        /\ Len(transactions[t].ops) >= 3
        /\ SubSeq(transactions[t].ops, Len(transactions[t].ops) - 2,
                  Len(transactions[t].ops)) = <<"prepare", "commit_error", "release">>

\* C2: finalize_transaction returns a boolean, never an engine error: True
\* if and only if prepare and commit both completed without an engine error.
C2_ReturnsSuccessIffBothPhasesOk ==
    [][(pc \in {"prepare", "commit"} /\ pc' = "idle")
          => LET ops == transactions'[frame.transaction].ops
             IN  /\ result' \in {"True", "False"}
                 /\ result' = "True" <=>
                        (/\ Count(ops, "prepare") = 1
                         /\ Count(ops, "commit") = 1
                         /\ Count(ops, "prepare_error") = 0
                         /\ Count(ops, "commit_error") = 0)]_vars

\* finalize_transaction has returned False after commit raised.
C2_Witness ==
    /\ pc = "idle"
    /\ result = "False"
    /\ \E t \in DOMAIN transactions : Count(transactions[t].ops, "commit_error") = 1

\* The event a call of queue_event puts on the queue.
EventOf(call) == <<call.type, queued_text(call.type, call.text)>>

\* The events of the calls of the log with an outcome among outcomes and a
\* type among types, in order.
RECURSIVE EventsOf(_, _, _)
EventsOf(log, outcomes, types) ==
    IF log = << >> THEN << >>
    ELSE (IF Head(log).outcome \in outcomes /\ Head(log).type \in types
          THEN <<EventOf(Head(log))>> ELSE << >>)
             \o EventsOf(Tail(log), outcomes, types)

\* The events of q that are not error events, in order.
RECURSIVE NonError(_)
NonError(q) ==
    IF q = << >> THEN << >>
    ELSE (IF Head(q)[1] # "error" THEN <<Head(q)>> ELSE << >>) \o NonError(Tail(q))


\* C3: whenever queue_event('error', text) is called with a callback queue
\* present, the error event is placed on the queue before the producer
\* blocks and terminates, whatever the queue holds (a full queue too): once
\* the producer waits or has exited, the error event is on the queue or
\* with the consumer.
C3_ErrorEventQueued ==
    (pc \in {"join", "exited"} /\ callback_queue.present)
        => \E i \in DOMAIN (consumed \o callback_queue.queue) :
               (consumed \o callback_queue.queue)[i][1] = "error"

NewCalls == {i \in DOMAIN event_log' : i > Len(event_log)}

\* C5: a non-error event emitted while the bounded queue is full leaves the
\* queue as it is, raises nothing and does not block: the producer goes on
\* from where it was.
C5_FullQueueDropsWithoutBlocking ==
    [][(/\ callback_queue.present
        /\ full(callback_queue)
        /\ NewCalls # {}
        /\ \A i \in NewCalls : event_log'[i].type # "error")
          => /\ callback_queue' = callback_queue
             /\ pc' = pc
             /\ pc' \notin {"join", "exited"}]_vars

\* An info event has just been dropped on a full queue and the producer is
\* still running.
C5_Witness ==
    /\ callback_queue.present
    /\ full(callback_queue)
    /\ event_log # << >>
    /\ Last(event_log).type = "info"
    /\ Last(event_log).outcome = "not queued"
    /\ pc \in {"idle", "update"}

\* C6: a call queue_event(kind, text) is suppressed (nothing queued, cache
\* unchanged) if and only if the last call for that kind had the same text:
\* of two consecutive events of a kind with the same text only the first
\* goes on, and calls for other kinds in between change nothing.
C6_SuppressedIffSameAsLastOfKind ==
    \A i \in DOMAIN event_log :
        event_log[i].outcome = "suppressed" <=>
            \E j \in 1..(i - 1) :
                /\ event_log[j].type = event_log[i].type
                /\ event_log[j].text = event_log[i].text
                /\ \A k \in (j + 1)..(i - 1) :
                       event_log[k].type # event_log[i].type

\* An info event was suppressed as a repeat although a percent event went
\* on in between.
C6_Witness ==
    \E i, j, k \in DOMAIN event_log :
        /\ i < j /\ j < k
        /\ event_log[i].type = "info" /\ event_log[i].outcome = "queued"
        /\ event_log[j].type = "percent" /\ event_log[j].outcome # "suppressed"
        /\ event_log[k].type = "info" /\ event_log[k].text = event_log[i].text
        /\ event_log[k].outcome = "suppressed"

\* The step is a call of cb_dl for the file that is downloading.
SameFileCall ==
    /\ budget'.hooks < budget.hooks
    /\ last_hook'.hook = "cb_dl"
    /\ last_hook'.s = last_dl_filename.stem \o last_dl_filename.ext
    /\ last_hook'.b = last_dl_total_size

\* C7: a same-file call of cb_dl emits its fraction as a 'percent' event
\* and stores it only if it exceeds the stored fraction; otherwise nothing
\* is emitted and the progress state is unchanged.  The stored fraction
\* never decreases while the file and its total stay the same.
C7_SameFileProgressOnlyGrows ==
    [][/\ SameFileCall =>
            LET fraction == dl_progress(last_hook'.a, last_hook'.b)
            IN  IF Greater(fraction, last_dl_progress)
                THEN /\ last_dl_progress' = fraction
                     /\ Len(event_log') = Len(event_log) + 1
                     /\ Last(event_log').type = "percent"
                     /\ Last(event_log').text = fraction
                ELSE UNCHANGED <<event_log, progress_vars, last_event, callback_queue>>
       /\ (last_dl_filename' = last_dl_filename /\ last_dl_total_size' = last_dl_total_size)
              => ~Greater(last_dl_progress, last_dl_progress')]_vars

\* After (tx=50, total=100) the call (tx=40, total=100) for the same file:
\* 0.5 was emitted once and is still the stored fraction.
C7_Witness ==
    /\ last_hook = Hook("cb_dl", last_dl_filename.stem \o last_dl_filename.ext, 40, 100)
    /\ last_dl_total_size = 100
    /\ last_dl_progress = Div(50, 100)
    /\ Cardinality({i \in DOMAIN event_log :
                       event_log[i].type = "percent" /\ event_log[i].text = Div(1, 2)}) = 1
    /\ Last(event_log).text = Div(1, 2)

\* The step is a call of do_install on a live handle.
InstallCall == budget'.installs < budget.installs /\ handle = "Handle"

\* C8: on a live handle do_install with an empty list of names returns an
\* empty result, raises nothing, creates no transaction and performs no
\* engine operation, whatever the conflicts and the options.
C8_EmptyListIsNoOp ==
    [][(InstallCall /\ request'.pkgs = << >>)
          => /\ result' = "[]"
             /\ pc' = "idle"
             /\ transactions' = transactions
             /\ engine_calls' = {}]_vars

\* do_install has returned [] for an empty list given with conflicts and
\* options.
C8_Witness ==
    /\ result = "[]"
    /\ request.pkgs = << >>
    /\ request.conflicts # {}
    /\ request.options # NoOptions
    /\ budget.installs < MaxInstalls

\* The reference set of targets: for each requested name the package of
\* that name if some database has it, otherwise the members of the group of
\* that name in the first database that has such a group, otherwise
\* nothing; minus the conflicts.
Reference(pkgs, dbs, conflicts) ==
    LET names == {pkgs[i] : i \in DOMAIN pkgs}
        HasPkg(n) == \E i \in DOMAIN dbs : n \in dbs[i].pkgs
        GroupDbs(n) == {i \in DOMAIN dbs : n \in DOMAIN dbs[i].grps}
        FirstGroupDb(n) == CHOOSE i \in GroupDbs(n) : \A j \in GroupDbs(n) : i <= j
        Resolved(n) ==
            IF HasPkg(n) THEN {n}
            ELSE IF GroupDbs(n) # {} THEN dbs[FirstGroupDb(n)].grps[n]
            ELSE {}
    IN  UNION {Resolved(n) : n \in names} \ conflicts

\* C9: do_install with a non-empty list of names whose targets are empty
\* after resolution and conflict filtering reports failure (False, not the
\* [] of the empty list) and creates, prepares and commits no transaction;
\* when some target is left, unresolvable names do not stop do_install from
\* going on to the transaction.
C9_NoTargetsFails ==
    [][(InstallCall /\ request'.pkgs # << >>)
          => IF Reference(request'.pkgs, syncdbs, request'.conflicts) = {}
             THEN /\ result' = "False"
                  /\ pc' = "idle"
                  /\ transactions' = transactions
                  /\ engine_calls' \cap {"init_transaction", "add_pkg", "prepare",
                                         "commit", "release"} = {}
             ELSE "init_transaction" \in engine_calls']_vars

\* do_install has returned False for an unresolvable name and a package
\* that is in conflicts.
C9_Witness ==
    /\ result = "False"
    /\ request.pkgs = <<"Z", "B">>
    /\ request.conflicts = {"B"}
    /\ "B" \in syncdbs[1].pkgs
    /\ "get_pkg" \in engine_calls
    /\ "init_transaction" \notin engine_calls
    /\ transactions = << >>

\* C10: the packages do_install adds to the transaction are the reference
\* set of the request: each target once, none with a name in conflicts, and
\* all of them once the adding is done.
C10_TransactionHoldsReferenceSet ==
    \A t \in DOMAIN transactions :
        LET added == transactions[t].pkgs
            ref == Reference(request.pkgs, syncdbs, request.conflicts)
        IN  /\ \A i, j \in DOMAIN added : i # j => added[i] # added[j]
            /\ \A i \in DOMAIN added : added[i] \in ref /\ added[i] \notin request.conflicts
            /\ Count(transactions[t].ops, "add_pkg_error") = 0
                   => {added[i] : i \in DOMAIN added} = ref

\* Names [A, A, B] with conflicts [B]: exactly A has been added and the
\* transaction is being prepared.
C10_Witness ==
    /\ request.pkgs = <<"A", "A", "B">>
    /\ request.conflicts = {"B"}
    /\ pc = "prepare"
    /\ transactions[frame.transaction].pkgs = <<"A">>
    /\ "B" \in syncdbs[1].pkgs

\* C11 as claimed: a failed update of one sync database does not abort the
\* loop of do_refresh: do_refresh ends with an engine error of db.update
\* only at the last configured database, update having been attempted on
\* every database in configured order.
C11_FailedUpdateDoesNotAbortLoop ==
    [][(pc = "update" /\ pc' = "idle" /\ result' = "pyalpm.error")
          => frame.db = Len(syncdbs)]_vars

\* The step is a call of do_refresh or do_install with the handle absent.
CallWithoutHandle ==
    /\ budget'.calls < budget.calls
    /\ last_call' \in {"do_refresh", "do_install"}
    /\ handle = "None"

\* C12: with the engine handle absent do_refresh and do_install fail at
\* once with the not-initialised error, before any other effect: no engine
\* operation, no transaction, no event, progress and dedup state unchanged;
\* for do_install also when the list of names is empty.
C12_NoHandleFailsFirst ==
    [][CallWithoutHandle
          => /\ result' = "pyalpm.error"
             /\ engine_calls' = {}
             /\ pc' = "idle"
             /\ UNCHANGED <<transactions, callback_queue, event_log, last_event,
                            progress_vars, total_packages_to_download, handle>>]_vars

\* do_install was called with an empty list of names after release() and
\* raised the not-initialised error.
C12_Witness ==
    /\ handle = "None"
    /\ last_call = "do_install"
    /\ request.pkgs = << >>
    /\ result = "pyalpm.error"
    /\ budget.installs < MaxInstalls

\* C13: for every options map the flags init_transaction gives the engine
\* satisfy: recurse iff recursive > 0 and recurseall iff recursive > 1, so
\* recurseall implies recurse; alldeps and allexplicit are never both true,
\* and both are false when 'mode' is absent.
C13_FlagsAreConsistent ==
    \A t \in DOMAIN transactions :
        LET f == transactions[t].flags
            recursive == IF "recursive" \in DOMAIN request.options
                         THEN request.options["recursive"] ELSE 0
        IN  /\ f.recurseall => f.recurse
            /\ f.recurse <=> recursive > 0
            /\ f.recurseall <=> recursive > 1
            /\ ~(f.alldeps /\ f.allexplicit)
            /\ "mode" \notin DOMAIN request.options => ~f.alldeps /\ ~f.allexplicit

\* A transaction was created for recursive = 2 and mode = PKG_REASON_DEPEND:
\* recurse, recurseall and alldeps are set, allexplicit is not.
C13_Witness ==
    /\ "recursive" \in DOMAIN request.options /\ request.options["recursive"] = 2
    /\ "mode" \in DOMAIN request.options /\ request.options["mode"] = PKG_REASON_DEPEND
    /\ \E t \in DOMAIN transactions :
           LET f == transactions[t].flags
           IN  f.recurse /\ f.recurseall /\ f.alldeps /\ ~f.allexplicit

\* C14 as claimed: every 'percent' event placed on the queue, by cb_dl (the
\* ratio tx / total, or the fallback curve when total is 0) or by
\* cb_progress, carries a value in the range [0, 1], for every sequence of
\* hook calls with non-negative byte counts.
C14_PercentInUnitRange ==
    \A i \in DOMAIN event_log :
        (event_log[i].type = "percent" /\ event_log[i].outcome = "queued")
            => in_unit(event_log[i].text)

\* The state of the lifecycle Created -> Prepared -> Committed -> Released
\* or Created -> Failed -> Released after one more operation; "Illegal" for
\* an operation the lifecycle does not have in that state.
LifecycleStep(state, op) ==
    CASE state = "Created" /\ op = "add_pkg" -> "Created"
      [] state = "Created" /\ op = "prepare" -> "Prepared"
      [] state = "Created" /\ op \in {"add_pkg_error", "prepare_error"} -> "Failed"
      [] state = "Prepared" /\ op = "commit" -> "Committed"
      [] state = "Prepared" /\ op = "commit_error" -> "Failed"
      [] state \in {"Committed", "Failed"} /\ op = "release" -> "Released"
      [] OTHER -> "Illegal"

RECURSIVE Lifecycle(_, _)
Lifecycle(state, ops) ==
    IF ops = << >> THEN state
    ELSE Lifecycle(LifecycleStep(state, Head(ops)), Tail(ops))

\* C15 as claimed: every transaction of do_install and of do_refresh
\* follows Created -> Prepared -> Committed -> Released or Created ->
\* Failed -> Released: the operations performed on it so far are the
\* beginning of one of these two lifecycles.
C15_OneOfTwoLifecycles ==
    \A t \in DOMAIN transactions :
        Lifecycle("Created", transactions[t].ops) # "Illegal"

\* C15 as amended: a transaction of do_install follows Created -> Prepared
\* -> Committed -> Released or Created -> Failed -> Released, and a
\* transaction of do_refresh goes from Created straight to Released, with
\* no package added and no prepare or commit.  On every transaction
\* packages are added only in Created, commit comes only after a
\* successful prepare, nothing is done after release, and only the
\* transaction created last is operated on.
C15_LinearLifecycle ==
    /\ \A t \in DOMAIN transactions :
           LET ops == transactions[t].ops
           IN  /\ \/ ops = <<"release">> /\ transactions[t].pkgs = << >>
                  \/ Lifecycle("Created", ops) # "Illegal"
               /\ \A i \in DOMAIN ops : ops[i] = "release" => i = Len(ops)
               /\ Len(transactions[t].pkgs) = Count(ops, "add_pkg")
    /\ \A t \in DOMAIN transactions :
           (pc \in {"update", "prepare", "commit"} /\ frame.transaction # 0
               /\ t # frame.transaction)
               => transactions[t].ops = << >> \/ Lifecycle("Created", transactions[t].ops)
                      \in {"Released", "Failed"} \/ transactions[t].ops = <<"release">>

\* After a do_refresh whose transaction was released at once, do_install
\* has committed and released a transaction with a package added.
C15_Witness ==
    /\ pc = "idle"
    /\ Len(transactions) >= 2
    /\ transactions[1].ops = <<"release">>
    /\ Last(transactions).pkgs # << >>
    /\ Lifecycle("Created", Last(transactions).ops) = "Released"
    /\ Count(Last(transactions).ops, "commit") = 1

\* The transactions that are open: created and not released.
Open == {t \in DOMAIN transactions : Count(transactions[t].ops, "release") = 0}

\* C16 as claimed: under sequential use at most one transaction is open on
\* the engine handle in every reachable state, after any sequence of calls
\* and any pattern of engine failures.
C16_AtMostOneOpen == Cardinality(Open) <= 1

\* C17 as claimed: an engine error in do_refresh or do_install is recovered
\* locally: whenever no call is running, no transaction is left unreleased,
\* and the call has reported failure instead of raising the engine error
\* (the only error raised is the one for an absent handle, before any
\* engine operation).
C17_EngineErrorRecoveredLocally ==
    pc = "idle"
        => /\ Open = {}
           /\ result = "pyalpm.error" => engine_calls = {}

\* The step is a call of cb_dl whose filename or total differs from the
\* stored ones.
NewFileCall ==
    /\ budget'.hooks < budget.hooks
    /\ last_hook'.hook = "cb_dl"
    /\ \/ last_hook'.s # last_dl_filename.stem \o last_dl_filename.ext
       \/ last_hook'.b # last_dl_total_size

\* A new-file call resets the progress state to the file of the call and
\* calls queue_event twice: 'info' with the text of the download, then
\* 'percent' with 0; the bytes-so-far of the call give no event.
ResetAndTwoCalls ==
    /\ last_dl_filename'.stem \o last_dl_filename'.ext = last_hook'.s
    /\ last_dl_total_size' = last_hook'.b
    /\ last_dl_progress' = Zero
    /\ Len(event_log') = Len(event_log) + 2
    /\ SubSeq(event_log', 1, Len(event_log)) = event_log
    /\ event_log'[Len(event_log) + 1].type = "info"
    /\ event_log'[Len(event_log) + 1].text = dl_text(last_dl_filename', total_download_size)
    /\ event_log'[Len(event_log) + 2].type = "percent"
    /\ event_log'[Len(event_log) + 2].text = Zero

\* C18 as claimed: every new-file call of cb_dl, after any sequence of hook
\* calls, resets the progress state and emits to the consumer an 'info'
\* event describing the download followed by a 'percent' event of 0:
\* neither of the two is held back.
C18_NewFileEmitsInfoThenZero ==
    [][NewFileCall
          => /\ ResetAndTwoCalls
             /\ event_log'[Len(event_log) + 1].outcome # "suppressed"
             /\ event_log'[Len(event_log) + 2].outcome # "suppressed"]_vars

\* C18 as amended: every new-file call of cb_dl resets the progress state
\* and passes to queue_event an 'info' event describing the download and
\* then a 'percent' event of 0; each of the two goes on to the consumer
\* unless it repeats the last event of its kind, and then it is suppressed.
C18_NewFileResetsAndCallsQueueEvent ==
    [][NewFileCall
          => /\ ResetAndTwoCalls
             /\ event_log'[Len(event_log) + 1].outcome = "suppressed"
                    <=> last_event["info"] = dl_text(last_dl_filename', total_download_size)
             /\ event_log'[Len(event_log) + 2].outcome = "suppressed"
                    <=> last_event["percent"] = Zero]_vars

\* After a fraction above 0 was stored for one file, a call for another
\* file with bytes-so-far above 0 has reset the state and sent info and 0.
C18_Witness ==
    /\ last_hook.hook = "cb_dl"
    /\ last_hook.a > 0
    /\ last_hook.s = last_dl_filename.stem \o last_dl_filename.ext
    /\ last_dl_progress = Zero
    /\ Len(event_log) >= 5
    /\ event_log[Len(event_log) - 2].type = "percent"
    /\ event_log[Len(event_log) - 2].text # Zero
    /\ event_log[Len(event_log) - 1].type = "info"
    /\ Last(event_log).type = "percent"
    /\ Last(event_log).text = Zero
    /\ Last(event_log).outcome # "suppressed"

\* C19: after queue_event('error', text) the producer terminates: at once
\* with no callback queue, and with a queue as soon as the consumer, which
\* keeps draining, has emptied it; from the error event on the producer
\* performs no engine operation and emits no event.
C19_FatalEventTerminatesProducer ==
    /\ (pc = "join") ~> (pc = "exited")
    /\ [][(pc \in {"join", "exited"})
             => /\ pc' \in {"join", "exited"}
                /\ UNCHANGED <<event_log, last_event, transactions, engine_calls,
                               handle, last_hook, last_call>>]_vars
    /\ [][(Len(event_log') > Len(event_log) /\ Last(event_log').type = "error"
               /\ Last(event_log').outcome # "suppressed")
             => pc' = IF callback_queue.present THEN "join" ELSE "exited"]_vars

\* The producer has exited on an error event that found the queue holding
\* an event: the consumer took that event and then the error event.
C19_Witness ==
    /\ pc = "exited"
    /\ callback_queue.present
    /\ callback_queue.unfinished_tasks = 0
    /\ Len(consumed) >= 2
    /\ Last(consumed)[1] = "error"
    /\ Last(event_log).type = "error"
    /\ last_hook.hook # ""

\* C20 as claimed: with a callback queue present the dedup cache reflects
\* what the consumer was given: if the cache holds text T for an event
\* kind, an event (kind, T) was placed on the queue; an event dropped on a
\* full queue is not recorded as the last event of its kind.
C20_CacheHoldsQueuedEvents ==
    callback_queue.present
        => \A kind \in EventTypes :
               last_event[kind] # None
                   => \E i \in DOMAIN event_log :
                          /\ event_log[i].type = kind
                          /\ event_log[i].text = last_event[kind]
                          /\ event_log[i].outcome = "queued"

====
